---- MODULE Spec2Model ----
(***************************************************************************)
(* Qt6-Redux-Store: the Store singleton (State.h, Store.cpp) and the       *)
(* Sidebar subscriber of the example application (main.cpp).               *)
(*                                                                         *)
(* The program is single threaded.  A call of Store::dispatch is modelled  *)
(* as the sequence  Dispatch (reduce) ; EmitStateChanged* ; DispatchReturn *)
(* and the construction of the Sidebar as  SidebarCtor ; SidebarSeed ; the *)
(* variable pc is the position of the one thread of control.               *)
(***************************************************************************)
EXTENDS Integers, Sequences, FiniteSets, TLC

VARIABLES
    m_state,        \* Store::m_state (AppState)
    nStores,        \* Store objects constructed so far by Store::instance()
    receivers,      \* slots connected to Store::stateChanged, in connect order
    sidebar,        \* the Sidebar object: m_currentPage, m_pageMap, m_stackedWidget
    pc,             \* "idle" | "emit" (inside dispatch, after reduce) | "seed" (inside Sidebar::Sidebar)
    emitIdx,        \* next receiver the running emit invokes
    lastAction,     \* argument of the running / most recent dispatch call
    pre,            \* m_state at the entry of the running / most recent dispatch
    nDispatch,      \* number of dispatch calls so far
    connAtDispatch, \* number of connected slots at the entry of that dispatch
    delivered,      \* slot invocations made by the emit of that dispatch
    seenAtDispatch, \* Sidebar::m_currentPage at the entry of that dispatch
    updAtDispatch,  \* sidebar.updates at the entry of that dispatch
    nDispatchConn,  \* dispatch calls made while the Sidebar was connected
    nSlot,          \* invocations of Sidebar::onStateChanged through the signal
    nChanged,       \* dispatches (Sidebar connected) whose reduce changed sidebar.activePage
    nSeedUpdates,   \* update paths taken by the seeding call of the constructor
    handlerSaw,     \* AppState read through getState() by the latest onStateChanged
    reads,          \* values returned by getState() since the latest reduce
    shadow,         \* m_state of a Store fed the same actions with no subscriber
    repeated,       \* the most recent dispatch got the same action as the one before it
    shownAtDispatch,\* widget the Sidebar displayed at the entry of that dispatch
    lastPage,       \* string payload of the latest SidebarChangeActivePage that held one
    lastShow        \* whether the latest UserProfileShow / UserProfileHide was a Show

vars == <<m_state, nStores, receivers, sidebar, pc, emitIdx, lastAction, pre, nDispatch,
          connAtDispatch, delivered, seenAtDispatch, updAtDispatch,
          nDispatchConn, nSlot, nChanged, nSeedUpdates, handlerSaw, reads, shadow,
          repeated, shownAtDispatch, lastPage, lastShow>>

(***************************************************************************)
(* Bounds                                                                  *)
(***************************************************************************)
MaxDispatches == 3
MaxReads == 2

\* page names used as string payloads: the three pages of the Sidebar, a page
\* it has no widget for, and the empty string (the initial m_currentPage)
Strings == {"chatList", "filesSidebar", "bugSidebar", "settings", ""}
Ints == {0, 7}

(***************************************************************************)
(* State.h                                                                 *)
(***************************************************************************)
SidebarState == [activePage |-> "chatList", headerComponent |-> "ChatHeader"]

\* variant of UserProfileState: the member initialiser of visible is true
UserProfileStateShown == [visible |-> TRUE, activePage |-> "UserProfile"]

UserProfileState == [visible |-> FALSE, activePage |-> "UserProfile"]

AppState == [sidebar |-> SidebarState, userProfile |-> UserProfileState]

ActionType == {"SidebarChangeActivePage", "UserProfileShow", "UserProfileHide"}

\* std::variant<std::monostate, std::string, bool, int>: kind is the held
\* alternative, the field of that alternative holds the value
Monostate == [kind |-> "monostate", str |-> "", flag |-> FALSE, num |-> 0]
StringPayload(s) == [kind |-> "string", str |-> s, flag |-> FALSE, num |-> 0]
BoolPayload(b) == [kind |-> "bool", str |-> "", flag |-> b, num |-> 0]
IntPayload(i) == [kind |-> "int", str |-> "", flag |-> FALSE, num |-> i]

ActionPayload ==
    {Monostate} \cup {StringPayload(s) : s \in Strings}
                \cup {BoolPayload(b) : b \in BOOLEAN}
                \cup {IntPayload(i) : i \in Ints}

Action == [type : ActionType, payload : ActionPayload]

\* value of lastAction before the first dispatch call
NoAction == [type |-> "none", payload |-> Monostate]

(***************************************************************************)
(* Store.cpp                                                               *)
(***************************************************************************)
\* variant of instance: storeInstance is not static, every call constructs a
\* Store
instanceNotStatic(n, st) == [count |-> n + 1, state |-> AppState]

\* Store::instance: the function-local static storeInstance is constructed
\* (Store::Store, m_state default-initialised) by the first call only; n is the
\* number of Store objects constructed before the call, st the m_state held
instance(n, st) ==
    IF n = 0 THEN [count |-> 1, state |-> AppState]
             ELSE [count |-> n, state |-> st]

\* variant of getState: returns a default-constructed AppState, not m_state
getStateFresh(st) == AppState

\* Store::getState: returns a reference to m_state
getState(st) == st

\* std::get_if<std::string>(&action.payload) is non-null
holdsString(payload) == payload.kind = "string"

\* variant of reduce: the page name is also written to the activePage of the
\* userProfile slice
reduceBothSlices(st, action) ==
    CASE action.type = "SidebarChangeActivePage" ->
            IF holdsString(action.payload)
            THEN [st EXCEPT !.sidebar.activePage = action.payload.str,
                            !.userProfile.activePage = action.payload.str]
            ELSE st
      [] action.type = "UserProfileShow" ->
            [st EXCEPT !.userProfile.visible = TRUE]
      [] action.type = "UserProfileHide" ->
            [st EXCEPT !.userProfile.visible = FALSE]

\* variant of reduce: UserProfileShow / UserProfileHide take a boolean payload
\* as the new value of visible
reduceUsesBoolPayload(st, action) ==
    CASE action.type = "SidebarChangeActivePage" ->
            IF holdsString(action.payload)
            THEN [st EXCEPT !.sidebar.activePage = action.payload.str]
            ELSE st
      [] action.type = "UserProfileShow" ->
            [st EXCEPT !.userProfile.visible =
                IF action.payload.kind = "bool" THEN action.payload.flag ELSE TRUE]
      [] action.type = "UserProfileHide" ->
            [st EXCEPT !.userProfile.visible =
                IF action.payload.kind = "bool" THEN action.payload.flag ELSE FALSE]

\* variant of reduce: no std::get_if test, a payload that holds no string
\* yields the empty page name
reduceNoPayloadTest(st, action) ==
    CASE action.type = "SidebarChangeActivePage" ->
            [st EXCEPT !.sidebar.activePage = action.payload.str]
      [] action.type = "UserProfileShow" ->
            [st EXCEPT !.userProfile.visible = TRUE]
      [] action.type = "UserProfileHide" ->
            [st EXCEPT !.userProfile.visible = FALSE]

\* variant of reduce: UserProfileShow toggles visible
reduceToggle(st, action) ==
    CASE action.type = "SidebarChangeActivePage" ->
            IF holdsString(action.payload)
            THEN [st EXCEPT !.sidebar.activePage = action.payload.str]
            ELSE st
      [] action.type = "UserProfileShow" ->
            [st EXCEPT !.userProfile.visible = ~st.userProfile.visible]
      [] action.type = "UserProfileHide" ->
            [st EXCEPT !.userProfile.visible = FALSE]

\* variant of reduce: UserProfileHide returns a default-constructed AppState
\* with visible false
reduceHideResets(st, action) ==
    CASE action.type = "SidebarChangeActivePage" ->
            IF holdsString(action.payload)
            THEN [st EXCEPT !.sidebar.activePage = action.payload.str]
            ELSE st
      [] action.type = "UserProfileShow" ->
            [st EXCEPT !.userProfile.visible = TRUE]
      [] action.type = "UserProfileHide" ->
            AppState

\* variant of reduce: SidebarChangeActivePage also names the header after the
\* page
reduceSetsHeader(st, action) ==
    CASE action.type = "SidebarChangeActivePage" ->
            IF holdsString(action.payload)
            THEN [st EXCEPT !.sidebar.activePage = action.payload.str,
                            !.sidebar.headerComponent = action.payload.str]
            ELSE st
      [] action.type = "UserProfileShow" ->
            [st EXCEPT !.userProfile.visible = TRUE]
      [] action.type = "UserProfileHide" ->
            [st EXCEPT !.userProfile.visible = FALSE]

\* Store::reduce
reduce(st, action) ==
    CASE action.type = "SidebarChangeActivePage" ->
            IF holdsString(action.payload)
            THEN [st EXCEPT !.sidebar.activePage = action.payload.str]
            ELSE st
      [] action.type = "UserProfileShow" ->
            [st EXCEPT !.userProfile.visible = TRUE]
      [] action.type = "UserProfileHide" ->
            [st EXCEPT !.userProfile.visible = FALSE]

(***************************************************************************)
(* main.cpp: Sidebar                                                       *)
(***************************************************************************)
NoWidget == "<none>"

\* keys of m_pageMap in the iteration order of std::map (sorted)
PageMapOrder == <<"bugSidebar", "chatList", "filesSidebar">>

\* QStackedWidget::addWidget: the first widget added becomes the current one
addWidget(stack, w) ==
    [widgets |-> Append(stack.widgets, w),
     current |-> IF stack.widgets = <<>> THEN w ELSE stack.current]

RECURSIVE addAll(_, _)
addAll(stack, names) ==
    IF names = <<>> THEN stack
    ELSE addAll(addWidget(stack, Head(names)), Tail(names))

\* the Sidebar object before its constructor has run
NoSidebar ==
    [exists |-> FALSE, m_currentPage |-> "", m_pageMap |-> {},
     m_stackedWidget |-> [widgets |-> <<>>, current |-> NoWidget],
     updates |-> 0]

\* Sidebar::Sidebar up to the connect call: widgets created and stacked
newSidebar ==
    [exists |-> TRUE, m_currentPage |-> "",
     m_pageMap |-> {PageMapOrder[i] : i \in DOMAIN PageMapOrder},
     m_stackedWidget |-> addAll([widgets |-> <<>>, current |-> NoWidget], PageMapOrder),
     updates |-> 0]

\* variant of onStateChanged: no comparison with m_currentPage
onStateChangedNoFilter(sb, st) ==
    LET newPageName == getState(st).sidebar.activePage IN
    [sb EXCEPT !.m_currentPage = newPageName,
               !.updates = @ + 1,
               !.m_stackedWidget.current =
                   IF newPageName \in sb.m_pageMap THEN newPageName ELSE @]

\* variant of onStateChanged: m_currentPage is assigned only for a page that
\* has a widget
onStateChangedKnownOnly(sb, st) ==
    LET newPageName == getState(st).sidebar.activePage IN
    IF newPageName # sb.m_currentPage
    THEN [sb EXCEPT !.m_currentPage =
                        IF newPageName \in sb.m_pageMap THEN newPageName ELSE @,
                    !.updates = @ + 1,
                    !.m_stackedWidget.current =
                        IF newPageName \in sb.m_pageMap THEN newPageName ELSE @]
    ELSE sb

\* variant of onStateChanged: no m_pageMap.count test, a name without widget
\* makes the stack show no widget (setCurrentWidget of a null entry)
onStateChangedBlank(sb, st) ==
    LET newPageName == getState(st).sidebar.activePage IN
    IF newPageName # sb.m_currentPage
    THEN [sb EXCEPT !.m_currentPage = newPageName,
                    !.updates = @ + 1,
                    !.m_stackedWidget.current =
                        IF newPageName \in sb.m_pageMap THEN newPageName ELSE NoWidget]
    ELSE sb

\* Sidebar::onStateChanged; updates counts the executions of the update path
onStateChanged(sb, st) ==
    LET newPageName == getState(st).sidebar.activePage IN
    IF newPageName # sb.m_currentPage
    THEN [sb EXCEPT !.m_currentPage = newPageName,
                    !.updates = @ + 1,
                    !.m_stackedWidget.current =
                        IF newPageName \in sb.m_pageMap THEN newPageName ELSE @]
    ELSE sb

\* record a value returned by getState(), keeping the latest MaxReads
recordRead(rs, v) ==
    IF Len(rs) < MaxReads THEN Append(rs, v) ELSE Append(Tail(rs), v)

(***************************************************************************)
(* Initial state: Store::instance() not called yet (m_state has the value  *)
(* the construction gives it), no Sidebar yet                              *)
(***************************************************************************)
Init ==
    /\ m_state = AppState
    /\ nStores = 0
    /\ receivers = <<>>
    /\ sidebar = NoSidebar
    /\ pc = "idle"
    /\ emitIdx = 1
    /\ lastAction = NoAction
    /\ pre = AppState
    /\ nDispatch = 0
    /\ connAtDispatch = 0
    /\ delivered = 0
    /\ seenAtDispatch = ""
    /\ updAtDispatch = 0
    /\ nDispatchConn = 0
    /\ nSlot = 0
    /\ nChanged = 0
    /\ nSeedUpdates = 0
    /\ handlerSaw = AppState
    /\ reads = <<>>
    /\ shadow = AppState
    /\ repeated = FALSE
    /\ shownAtDispatch = NoWidget
    /\ lastPage = "chatList"
    /\ lastShow = FALSE

\* the Store that a call of Store::instance() yields in the current state
theStore == instance(nStores, m_state)

dispatchGhosts == <<lastAction, pre, nDispatch, connAtDispatch, delivered,
                    seenAtDispatch, updAtDispatch, nDispatchConn, nChanged, shadow,
                    repeated, shownAtDispatch, lastPage, lastShow>>

(***************************************************************************)
(* Store::dispatch                                                         *)
(***************************************************************************)
\* the ghost updates every variant of Dispatch shares
dispatchEntry(a) ==
    /\ lastAction' = a
    /\ pre' = m_state
    /\ nDispatch' = nDispatch + 1
    /\ connAtDispatch' = Len(receivers)
    /\ delivered' = 0
    /\ seenAtDispatch' = sidebar.m_currentPage
    /\ updAtDispatch' = sidebar.updates
    /\ nDispatchConn' = IF Len(receivers) > 0 THEN nDispatchConn + 1 ELSE nDispatchConn
    /\ nChanged' = IF /\ Len(receivers) > 0
                      /\ reduce(m_state, a).sidebar.activePage # m_state.sidebar.activePage
                   THEN nChanged + 1 ELSE nChanged
    /\ reads' = <<>>
    /\ shadow' = reduce(shadow, a)
    /\ repeated' = (a = lastAction)
    /\ shownAtDispatch' = sidebar.m_stackedWidget.current
    /\ lastPage' = IF a.type = "SidebarChangeActivePage" /\ a.payload.kind = "string"
                   THEN a.payload.str ELSE lastPage
    /\ lastShow' = IF a.type = "UserProfileShow" THEN TRUE
                   ELSE IF a.type = "UserProfileHide" THEN FALSE
                   ELSE lastShow
    /\ UNCHANGED <<receivers, sidebar, nSlot, nSeedUpdates, handlerSaw>>

\* variant of Dispatch: the signal is emitted only when reduce changed m_state
DispatchEmitOnChange(a) ==
    /\ pc = "idle"
    /\ nDispatch < MaxDispatches
    /\ m_state' = reduce(theStore.state, a)
    /\ nStores' = theStore.count
    /\ pc' = "emit"
    /\ emitIdx' = IF reduce(m_state, a) = m_state THEN Len(receivers) + 1 ELSE 1
    /\ dispatchEntry(a)

\* variant of Dispatch: the signal is emitted before the reduction is applied
DispatchEmitFirst(a) ==
    /\ pc = "idle"
    /\ nDispatch < MaxDispatches
    /\ m_state' = theStore.state
    /\ nStores' = theStore.count
    /\ pc' = "emit"
    /\ emitIdx' = 1
    /\ dispatchEntry(a)

\* entry of dispatch and the call of reduce
Dispatch(a) ==
    /\ pc = "idle"
    /\ nDispatch < MaxDispatches
    /\ m_state' = reduce(theStore.state, a)
    /\ nStores' = theStore.count
    /\ pc' = "emit"
    /\ emitIdx' = 1
    /\ dispatchEntry(a)

\* variant of EmitStateChanged: the slot writes the page it displays back
\* into the Store
EmitWritesStore ==
    /\ pc = "emit"
    /\ emitIdx <= Len(receivers)
    /\ sidebar' = onStateChanged(sidebar, theStore.state)
    /\ m_state' = [theStore.state EXCEPT !.sidebar.activePage =
                       onStateChanged(sidebar, theStore.state).m_stackedWidget.current]
    /\ nStores' = theStore.count
    /\ handlerSaw' = getState(theStore.state)
    /\ reads' = recordRead(reads, getState(theStore.state))
    /\ emitIdx' = emitIdx + 1
    /\ delivered' = delivered + 1
    /\ nSlot' = nSlot + 1
    /\ UNCHANGED <<receivers, pc, lastAction, pre, nDispatch, connAtDispatch,
                   seenAtDispatch, updAtDispatch, nDispatchConn, nChanged,
                   nSeedUpdates, shadow, repeated, shownAtDispatch,
                   lastPage, lastShow>>

\* emit stateChanged(): the next connected slot is invoked (direct connection)
EmitStateChanged ==
    /\ pc = "emit"
    /\ emitIdx <= Len(receivers)
    /\ sidebar' = onStateChanged(sidebar, theStore.state)
    /\ m_state' = theStore.state
    /\ nStores' = theStore.count
    /\ handlerSaw' = getState(theStore.state)
    /\ reads' = recordRead(reads, getState(theStore.state))
    /\ emitIdx' = emitIdx + 1
    /\ delivered' = delivered + 1
    /\ nSlot' = nSlot + 1
    /\ UNCHANGED <<receivers, pc, lastAction, pre, nDispatch, connAtDispatch,
                   seenAtDispatch, updAtDispatch, nDispatchConn, nChanged,
                   nSeedUpdates, shadow, repeated, shownAtDispatch,
                   lastPage, lastShow>>

\* variant of DispatchReturn: dispatch may return while slot invocations are
\* still outstanding (a queued connection)
DispatchReturnEarly ==
    /\ pc = "emit"
    /\ pc' = "idle"
    /\ UNCHANGED <<m_state, nStores, receivers, sidebar, emitIdx, nSlot, nSeedUpdates,
                   handlerSaw, reads>>
    /\ UNCHANGED dispatchGhosts

\* every slot has been invoked: dispatch returns
DispatchReturn ==
    /\ pc = "emit"
    /\ emitIdx > Len(receivers)
    /\ pc' = "idle"
    /\ UNCHANGED <<m_state, nStores, receivers, sidebar, emitIdx, nSlot, nSeedUpdates,
                   handlerSaw, reads>>
    /\ UNCHANGED dispatchGhosts

(***************************************************************************)
(* Store::getState called by code outside the Store                        *)
(***************************************************************************)
CallGetState ==
    /\ pc \in {"idle", "emit"}
    /\ Len(reads) < MaxReads
    /\ reads' = recordRead(reads, getState(theStore.state))
    /\ m_state' = theStore.state
    /\ nStores' = theStore.count
    /\ UNCHANGED <<receivers, sidebar, pc, emitIdx, nSlot, nSeedUpdates,
                   handlerSaw>>
    /\ UNCHANGED dispatchGhosts

(***************************************************************************)
(* Sidebar::Sidebar                                                        *)
(***************************************************************************)
\* widgets created and stacked, then connect(&Store::instance(), ...)
SidebarCtor ==
    /\ pc = "idle"
    /\ ~sidebar.exists
    /\ sidebar' = newSidebar
    /\ receivers' = Append(receivers, "Sidebar::onStateChanged")
    /\ m_state' = theStore.state
    /\ nStores' = theStore.count
    /\ pc' = "seed"
    /\ UNCHANGED <<emitIdx, nSlot, nSeedUpdates, handlerSaw, reads>>
    /\ UNCHANGED dispatchGhosts

\* variant of SidebarSeed: the constructor ends without calling onStateChanged
SidebarNoSeed ==
    /\ pc = "seed"
    /\ pc' = "idle"
    /\ UNCHANGED <<m_state, nStores, receivers, sidebar, emitIdx, nSlot, nSeedUpdates,
                   handlerSaw, reads>>
    /\ UNCHANGED dispatchGhosts

\* the direct call onStateChanged() that ends the constructor
SidebarSeed ==
    /\ pc = "seed"
    /\ sidebar' = onStateChanged(sidebar, theStore.state)
    /\ m_state' = theStore.state
    /\ nStores' = theStore.count
    /\ handlerSaw' = getState(theStore.state)
    /\ reads' = recordRead(reads, getState(theStore.state))
    /\ nSeedUpdates' = onStateChanged(sidebar, theStore.state).updates - sidebar.updates
    /\ pc' = "idle"
    /\ UNCHANGED <<receivers, emitIdx, nSlot>>
    /\ UNCHANGED dispatchGhosts

Next ==
    \/ \E a \in Action : Dispatch(a)
    \/ EmitStateChanged
    \/ DispatchReturn
    \/ CallGetState
    \/ SidebarCtor
    \/ SidebarSeed

Spec == Init /\ [][Next]_vars

\* dispatch is straight-line code on the one thread and the slots return: a
\* dispatch that has started keeps running, so the steps inside it are taken
FairSpec ==
    Spec /\ WF_vars(EmitStateChanged) /\ WF_vars(DispatchReturn)

TypeOK ==
    /\ pc \in {"idle", "emit", "seed"}
    /\ m_state.sidebar.activePage \in Strings
    /\ m_state.userProfile.visible \in BOOLEAN
    /\ nDispatch \in 0..MaxDispatches

(***************************************************************************)
(* Properties                                                              *)
(***************************************************************************)
malformed(a) ==
    a.type = "SidebarChangeActivePage" /\ a.payload.kind \in {"monostate", "bool", "int"}

\* C1: before any dispatch getState() returns sidebar.activePage = "chatList",
\* sidebar.headerComponent = "ChatHeader", userProfile.visible = false and
\* userProfile.activePage = "UserProfile", and every field of AppState is there.
C1_InitialState ==
    nDispatch = 0 =>
        /\ getState(m_state).sidebar.activePage = "chatList"
        /\ getState(m_state).sidebar.headerComponent = "ChatHeader"
        /\ getState(m_state).userProfile.visible = FALSE
        /\ getState(m_state).userProfile.activePage = "UserProfile"
        /\ DOMAIN m_state = {"sidebar", "userProfile"}
        /\ DOMAIN m_state.sidebar = {"activePage", "headerComponent"}
        /\ DOMAIN m_state.userProfile = {"visible", "activePage"}

\* the initial state has been read by the seeding call of a Sidebar
C1_Witness ==
    nDispatch = 0 /\ sidebar.exists /\ pc = "idle" /\ Len(reads) > 0

\* C2: a dispatch of SidebarChangeActivePage with string payload p makes
\* sidebar.activePage equal to p and leaves sidebar.headerComponent,
\* userProfile.visible and userProfile.activePage as they were at its entry.
C2_TargetedMutation ==
    (lastAction.type = "SidebarChangeActivePage" /\ lastAction.payload.kind = "string") =>
        /\ m_state.sidebar.activePage = lastAction.payload.str
        /\ m_state.sidebar.headerComponent = pre.sidebar.headerComponent
        /\ m_state.userProfile.visible = pre.userProfile.visible
        /\ m_state.userProfile.activePage = pre.userProfile.activePage

C2_Witness ==
    /\ pc = "idle" /\ sidebar.exists
    /\ lastAction = [type |-> "SidebarChangeActivePage", payload |-> StringPayload("filesSidebar")]
    /\ pre.sidebar.activePage = "bugSidebar"
    /\ pre.userProfile.visible = TRUE
    /\ m_state.sidebar.activePage = "filesSidebar"

\* C3: with any payload (absent, string, boolean, integer) a dispatch of
\* UserProfileShow sets userProfile.visible to true and a dispatch of
\* UserProfileHide sets it to false, and the other three fields stay as they
\* were at its entry.
C3_ShowHide ==
    (lastAction.type \in {"UserProfileShow", "UserProfileHide"}) =>
        /\ m_state.userProfile.visible = (lastAction.type = "UserProfileShow")
        /\ m_state.sidebar = pre.sidebar
        /\ m_state.userProfile.activePage = pre.userProfile.activePage

C3_Witness ==
    /\ pc = "idle"
    /\ lastAction = [type |-> "UserProfileShow", payload |-> BoolPayload(FALSE)]
    /\ pre.userProfile.visible = FALSE
    /\ pre.sidebar.activePage = "settings"
    /\ m_state.userProfile.visible = TRUE

\* C4: a dispatch of SidebarChangeActivePage whose payload holds no string
\* changes no field of AppState, the dispatch returns (there is no error
\* position), and on return every connected slot has been invoked.
C4_MalformedNoOp ==
    malformed(lastAction) =>
        /\ m_state = pre
        /\ pc \in {"emit", "idle", "seed"}
        /\ (pc = "idle" => delivered = connAtDispatch)

C4_Witness ==
    /\ pc = "idle"
    /\ lastAction = [type |-> "SidebarChangeActivePage", payload |-> BoolPayload(TRUE)]
    /\ pre.sidebar.activePage = "filesSidebar"
    /\ m_state.sidebar.activePage = "filesSidebar"
    /\ connAtDispatch = 1 /\ delivered = 1

\* C5: every dispatch invokes every connected slot exactly once, whether or
\* not reduce changed a field: when no dispatch is running the Sidebar has
\* been notified once per dispatch made since it was connected.
C5_NotifyOncePerDispatch ==
    /\ (pc = "idle" /\ nDispatch > 0) => delivered = connAtDispatch
    /\ (pc = "idle" /\ sidebar.exists) => nSlot = nDispatchConn
    /\ delivered <= connAtDispatch

\* two UserProfileShow in a row, the second changes nothing, two notifications
C5_Witness ==
    /\ pc = "idle" /\ sidebar.exists
    /\ nDispatchConn = 2 /\ nSlot = 2
    /\ lastAction.type = "UserProfileShow"
    /\ pre = m_state

\* C6: within a dispatch the reduction is applied before any slot is invoked,
\* a slot that calls getState() reads the state with the effect of the action
\* being dispatched, and no invocation is left over when dispatch returns.
C6_ReduceThenNotify ==
    /\ pc = "emit" => m_state = reduce(pre, lastAction)
    /\ delivered > 0 => handlerSaw = reduce(pre, lastAction)
    /\ (pc = "idle" /\ nDispatch > 0) => delivered = connAtDispatch

C6_Witness ==
    /\ pc = "emit" /\ delivered = 1
    /\ handlerSaw # pre
    /\ handlerSaw.sidebar.activePage = lastAction.payload.str

\* C7: the Sidebar takes its update path zero times on a notification that
\* leaves sidebar.activePage equal to its last-seen page (every UserProfileShow
\* and UserProfileHide), once on a notification whose activePage differs from
\* it, and in total as often as dispatches changed sidebar.activePage, plus
\* the update the seeding call made.
C7_SidebarFilters ==
    /\ (pc = "idle" /\ connAtDispatch > 0) =>
          /\ sidebar.updates - updAtDispatch =
                IF m_state.sidebar.activePage # seenAtDispatch THEN 1 ELSE 0
          /\ lastAction.type \in {"UserProfileShow", "UserProfileHide"} =>
                sidebar.updates = updAtDispatch
          /\ (/\ lastAction.type = "SidebarChangeActivePage"
              /\ lastAction.payload.kind = "string"
              /\ lastAction.payload.str # seenAtDispatch) =>
                sidebar.updates = updAtDispatch + 1
    /\ (pc = "idle" /\ sidebar.exists) =>
          sidebar.updates = nChanged + nSeedUpdates

C7_Witness ==
    /\ pc = "idle" /\ sidebar.exists
    /\ nDispatchConn = 3 /\ nChanged = 1 /\ nSeedUpdates = 1
    /\ sidebar.updates = 2
    /\ lastAction.type = "UserProfileShow"

\* C8 as stated: after the constructor and before any later dispatch the
\* last-seen page equals sidebar.activePage and the displayed page is the one
\* named by the state, whatever was dispatched before the construction.
C8_SeedShowsStatePage ==
    (pc = "idle" /\ sidebar.exists /\ nDispatchConn = 0) =>
        /\ receivers = <<"Sidebar::onStateChanged">>
        /\ sidebar.m_currentPage = m_state.sidebar.activePage
        /\ sidebar.m_stackedWidget.current = m_state.sidebar.activePage

\* C8 amended: after the constructor and before any later dispatch the
\* handler is connected, the last-seen page equals sidebar.activePage, and
\* the displayed page is the one named by the state when the Sidebar has a
\* widget for that name.
C8_SeedLastSeen ==
    (pc = "idle" /\ sidebar.exists /\ nDispatchConn = 0) =>
        /\ receivers = <<"Sidebar::onStateChanged">>
        /\ sidebar.m_currentPage = m_state.sidebar.activePage
        /\ nSeedUpdates \in {0, 1}
        /\ m_state.sidebar.activePage \in sidebar.m_pageMap =>
              sidebar.m_stackedWidget.current = m_state.sidebar.activePage

C8_Witness ==
    /\ pc = "idle" /\ sidebar.exists /\ nDispatchConn = 0
    /\ nDispatch = 2
    /\ m_state.sidebar.activePage = "filesSidebar"
    /\ sidebar.m_currentPage = "filesSidebar"
    /\ sidebar.m_stackedWidget.current = "filesSidebar"

\* C9: getState() is a pure read: the values it returned since the latest
\* reduction are equal to each other and to the stored state, also when the
\* call is made between slot invocations, and the Sidebar has never been
\* notified more often than dispatch was called.
C9_GetStatePure ==
    /\ \A i, j \in DOMAIN reads : reads[i] = reads[j]
    /\ \A i \in DOMAIN reads : reads[i] = m_state
    /\ nSlot <= nDispatchConn

C9_Witness ==
    /\ pc = "emit" /\ delivered = 1
    /\ Len(reads) = 2
    /\ reads[1] = reads[2]
    /\ reads[1] # AppState

\* C10: AppState is changed by the reduction only: the Store holds the state
\* a Store without subscriber holds after the same actions, whenever a
\* Sidebar was constructed, seeded and notified in between.
C10_StateOwnedByStore ==
    m_state = shadow

C10_Witness ==
    /\ pc = "idle" /\ sidebar.exists
    /\ nDispatch = 3 /\ nDispatchConn = 2
    /\ sidebar.updates = 3
    /\ m_state.sidebar.activePage = "settings"
    /\ m_state.userProfile.visible = TRUE

\* C11: there is one Store per process: it is constructed by the first call
\* of Store::instance(), no later call constructs another one, and its state
\* is never reset: what any access reads is the result of every dispatch made
\* so far.
C11_Singleton ==
    /\ nStores <= 1
    /\ (nDispatch > 0 \/ sidebar.exists \/ reads # <<>>) => nStores = 1
    /\ \A i \in DOMAIN reads : reads[i] = shadow

\* one Store after three dispatches, a Sidebar and two outside reads
C11_Witness ==
    /\ nStores = 1 /\ pc = "idle" /\ sidebar.exists
    /\ nDispatch = 3 /\ Len(reads) = 2
    /\ reads[2].sidebar.activePage = "bugSidebar"
    /\ reads[2].userProfile.visible = TRUE

\* C12: every dispatch that has applied its reduction goes on to invoke every
\* connected slot and returns, with the state the reduction of its action
\* gives, for every action type and payload.
C12_DispatchCompletes ==
    (pc = "emit") ~>
        (/\ pc = "idle"
         /\ nDispatch > 0
         /\ delivered = connAtDispatch
         /\ m_state = reduce(pre, lastAction))

\* a dispatch with a malformed payload has returned after notifying the Sidebar
C12_Witness ==
    /\ pc = "idle" /\ nDispatch = 3
    /\ connAtDispatch = 1 /\ delivered = 1
    /\ malformed(lastAction)
    /\ m_state # AppState

\* C13: the reduction is idempotent: from every reachable state every action
\* applied twice gives the state it gives applied once, and a dispatch that
\* repeats the action of the dispatch before it leaves the state as it was.
C13_Idempotent ==
    /\ \A a \in Action : reduce(reduce(m_state, a), a) = reduce(m_state, a)
    /\ repeated => m_state = pre

C13_Witness ==
    /\ pc = "idle" /\ nDispatch = 3
    /\ repeated
    /\ lastAction.type = "UserProfileShow"
    /\ m_state.userProfile.visible = TRUE
    /\ m_state.sidebar.activePage = "filesSidebar"

\* C14: once the Sidebar is constructed, whenever no dispatch is running its
\* last-seen page equals sidebar.activePage, also after malformed payloads
\* and after pages it has no widget for.
C14_LastSeenInSync ==
    (pc = "idle" /\ sidebar.exists) =>
        sidebar.m_currentPage = m_state.sidebar.activePage

C14_Witness ==
    /\ pc = "idle" /\ sidebar.exists
    /\ nDispatchConn = 2
    /\ malformed(lastAction)
    /\ m_state.sidebar.activePage = "settings"
    /\ sidebar.m_currentPage = "settings"

\* C15: once the Sidebar is constructed, whenever no dispatch is running and
\* sidebar.activePage names one of its three widgets the displayed widget is
\* that one; a dispatch that changes activePage to a name with no widget
\* updates the last-seen page and leaves the displayed widget as it was.
C15_DisplayedWidget ==
    /\ (pc = "idle" /\ sidebar.exists /\ m_state.sidebar.activePage \in sidebar.m_pageMap) =>
          sidebar.m_stackedWidget.current = m_state.sidebar.activePage
    /\ (/\ pc = "idle" /\ connAtDispatch > 0
        /\ m_state.sidebar.activePage \notin sidebar.m_pageMap
        /\ m_state.sidebar.activePage # pre.sidebar.activePage) =>
          /\ sidebar.m_currentPage = m_state.sidebar.activePage
          /\ sidebar.updates = updAtDispatch + 1
          /\ sidebar.m_stackedWidget.current = shownAtDispatch

C15_Witness ==
    /\ pc = "idle" /\ connAtDispatch = 1
    /\ pre.sidebar.activePage = "filesSidebar"
    /\ m_state.sidebar.activePage = "settings"
    /\ sidebar.m_currentPage = "settings"
    /\ sidebar.m_stackedWidget.current = "filesSidebar"

\* C16: the state is last-writer-wins per slice: sidebar.activePage is the
\* string payload of the latest SidebarChangeActivePage that held one
\* ("chatList" if none), userProfile.visible tells whether the latest
\* UserProfileShow / UserProfileHide was a Show (false if none), and a
\* SidebarChangeActivePage commutes with a UserProfileShow / UserProfileHide.
C16_LastWriterWins ==
    /\ m_state.sidebar.activePage = lastPage
    /\ m_state.userProfile.visible = lastShow
    /\ \A a \in [type : {"SidebarChangeActivePage"}, payload : ActionPayload] :
       \A b \in [type : {"UserProfileShow", "UserProfileHide"}, payload : ActionPayload] :
          reduce(reduce(m_state, a), b) = reduce(reduce(m_state, b), a)

C16_Witness ==
    /\ pc = "idle" /\ nDispatch = 3
    /\ lastAction.type = "UserProfileHide"
    /\ pre.userProfile.visible = TRUE
    /\ lastPage = "bugSidebar" /\ m_state.sidebar.activePage = "bugSidebar"
    /\ lastShow = FALSE

\* C17: no action changes sidebar.headerComponent or userProfile.activePage:
\* they are "ChatHeader" and "UserProfile" in every reachable state.
C17_UnusedFieldsConstant ==
    /\ m_state.sidebar.headerComponent = "ChatHeader"
    /\ m_state.userProfile.activePage = "UserProfile"

C17_Witness ==
    /\ pc = "idle" /\ nDispatch = 3
    /\ m_state.sidebar.activePage = "settings"
    /\ m_state.userProfile.visible = TRUE
    /\ m_state.sidebar.headerComponent = "ChatHeader"
    /\ m_state.userProfile.activePage = "UserProfile"
====
